---- MODULE Spec2Model ----
(***************************************************************************)
(* PDF merge page script (src/script.js): the file list filesArr, the     *)
(* asynchronous intake handleFiles, the asynchronous merge handler, and   *)
(* the remove / reorder / clear / undo handlers.                           *)
(*                                                                         *)
(* JavaScript runs one handler at a time; an async handler gives up the   *)
(* thread at each await.  Every action below is one synchronous segment:  *)
(* from an event (or the resumption after an await) up to the next await  *)
(* or the handler's end.  Two adjacent awaits with no access to shared    *)
(* state between them are one suspension.                                 *)
(*                                                                         *)
(* Arrays and records are JavaScript objects.  A record is identified by  *)
(* its id; its only mutable field, rawBytes, lives in the variable        *)
(* rawBytes so that every array holding the record sees the change.  The  *)
(* array filesArr refers to is replaced by remove, clear and undo and     *)
(* mutated in place by push and splice; a merge's for-of iterator keeps   *)
(* the array it was created on (field live / arr of a merge).             *)
(***************************************************************************)
EXTENDS Integers, Sequences, FiniteSets, TLC

Null == "null"

\* null where a hash is expected (hashes are tuples, see Digest)
NoHash == <<>>

\* the loop variable item of the merge outside an iteration
NoItem ==
  [id |-> 0, file |-> Null, name |-> <<Null, Null>>, size |-> 0, pageCount |-> 0,
   hash |-> NoHash]

\* ---------------------------------------------------------------- bounds
\* handleFiles invocations in one run
MaxBatches == 2
\* merge clicks that start a merge in one run
MaxMerges == 1
\* clicks on the clear control in one run
MaxClears == 1
\* clicks on remove controls in one run
MaxRemoves == 1
\* drag-and-drop reorders in one run
MaxReorders == 1
\* merge clicks that start a merge in a run that merges again
MaxMergesAgain == 2

\* ---------------------------------------------------------------- CONFIG
\* The limits of CONFIG, scaled down: sizes in units of 50 MB would give
\* 2 / 10 / 50; the model keeps their order (per-file < total, a handful of
\* files reach either ceiling) with numbers TLC can enumerate.
MAX_FILE_SIZE == 2
MAX_TOTAL_SIZE == 3
MAX_FILE_COUNT == 3
LARGE_OUTPUT_THRESHOLD == 2

\* ---------------------------------------------------------------- inputs
\* A File of the browser: name (stem and extension), declared type, size and
\* byte content.  readable: file.arrayBuffer() resolves.
MkFile(stem, ext, type, size, bytes, readable) ==
  [stem |-> stem, ext |-> ext, type |-> type, size |-> size, bytes |-> bytes,
   readable |-> readable]

File(k) ==
  CASE k = "A" -> MkFile("a", "pdf", "application/pdf", 1, "p", TRUE)
    [] k = "B" -> MkFile("b", "PDF", "", 2, "q", TRUE)
    \* same bytes as A under another name
    [] k = "C" -> MkFile("c", "pdf", "application/pdf", 1, "p", TRUE)
    \* same name and size as A, other bytes
    [] k = "D" -> MkFile("a", "pdf", "application/pdf", 1, "r", TRUE)
    \* empty file
    [] k = "E" -> MkFile("e", "pdf", "application/pdf", 0, "", TRUE)
    \* larger than MAX_FILE_SIZE
    [] k = "G" -> MkFile("g", "pdf", "application/pdf", 3, "ggg", TRUE)
    \* not a PDF by name or type
    [] k = "T" -> MkFile("t", "txt", "text/plain", 1, "t", TRUE)
    \* cannot be read
    [] k = "U" -> MkFile("u", "pdf", "application/pdf", 1, "u", FALSE)
    \* PDF by type only, bytes do not start with %PDF-
    [] k = "X" -> MkFile("x", "bin", "application/pdf", 1, "x", TRUE)
    \* header fine, PDFDocument.load throws
    [] k = "Y" -> MkFile("y", "pdf", "application/pdf", 1, "y", TRUE)
    \* a PDF with no page
    [] k = "Z" -> MkFile("z", "pdf", "application/pdf", 1, "z", TRUE)

\* String.prototype.toLowerCase on the extensions that occur
toLowerCase(s) == IF s = "PDF" THEN "pdf" ELSE s

\* headerStr.startsWith('%PDF-')
HasPdfHeader(bytes) == bytes \in {"p", "q", "r", "y", "z"}

\* PDFLib.PDFDocument.load(bytes, ...) resolves
LoadOK(bytes) == bytes \in {"p", "q", "r", "z"}

\* pdfDoc.getPageCount(), and the length of src.getPageIndices()
PageCountOf(bytes) ==
  CASE bytes = "q" -> 2
    [] bytes \in {"p", "r"} -> 1
    [] OTHER -> 0

\* SHA-256 hex digest of the bytes: equal bytes, equal digest
Digest(bytes) == <<"sha256", bytes>>

\* The batches a run may hand to handleFiles
Batches ==
  { <<"A", "B">>, <<"B", "A">>, <<"C", "Z">> }

\* The batches of the runs that merge again
AgainBatches == { <<"A">>, <<"A", "B">>, <<"C", "Z">> }

\* The batches of the runs checked for progress
LiveBatches == { <<"A", "B">> }

\* The batches of the runs that only take files in
IntakeBatches ==
  Batches \cup
  { <<"C", "D">>, <<"B", "B", "A">>, <<"E", "Z">>, <<"G", "Y", "U">>,
    <<"T", "X">>, <<"T">> }

VARIABLES
  filesArr,      \* the array filesArr refers to: a sequence of records
  rawBytes,      \* record id -> the record's rawBytes (bytes or Null)
  nextId,        \* ids handed out so far, plus one
  dom,           \* ids of the <li> items of the last renderFileList
  mergeDisabled, \* mergeBtn.disabled
  clearDisabled, \* clearBtn.disabled
  mergeLabel,    \* mergeBtn.textContent
  subtle,        \* crypto.subtle.digest is available in this browser
  batches,       \* the handleFiles invocations, in order of their start
  merges,        \* the merges started, in order of their start
  toasts,        \* the undo toasts on screen, oldest first
  progressBar,   \* progressBar.style.width, in percent
  resetTimers,   \* the 750 ms timers of finished merges that have not fired
  removed,       \* history: ids removed with the remove control
  clicks         \* history: the clear clicks and the reorders so far

vars == <<filesArr, rawBytes, nextId, dom, mergeDisabled, clearDisabled,
          mergeLabel, subtle, batches, merges, toasts, progressBar,
          resetTimers, removed, clicks>>

\* ---------------------------------------------------------------- helpers
\* filesArr.reduce((sum, f) => sum + f.size, 0)
RECURSIVE getTotalSize(_)
getTotalSize(arr) ==
  IF arr = <<>> THEN 0 ELSE Head(arr).size + getTotalSize(Tail(arr))

\* filesArr.reduce((s,f) => s + (f.pageCount||0), 0)
RECURSIVE TotalPages(_)
TotalPages(arr) ==
  IF arr = <<>> THEN 0 ELSE Head(arr).pageCount + TotalPages(Tail(arr))

Ids(arr) == [k \in 1..Len(arr) |-> arr[k].id]

\* uid(): seven base-36 digits of Math.random().  The model takes each draw
\* to differ from every earlier one (two equal draws have probability about
\* 36^-7), so an id names one record.
uid == nextId

\* validateFile(file): the list of error messages
validateFile(f) ==
  (IF f.size > MAX_FILE_SIZE THEN <<"File exceeds limit">> ELSE <<>>)
  \o (IF f.size = 0 THEN <<"File is empty">> ELSE <<>>)

\* the filter of handleFiles
IsPdfCandidate(f) ==
  LET hasPdfExtension == toLowerCase(f.ext) = "pdf"
      hasPdfType == f.type = "application/pdf" \/ f.type = ""
  IN hasPdfExtension \/ (hasPdfType /\ f.type = "application/pdf")

\* hashFile(buffer): the digest, or null when digest throws
hashFile(bytes) == IF subtle THEN Digest(bytes) ELSE NoHash

\* filesArr.find(x => (hash && x.hash === hash) || (x.name === file.name && x.size === file.size))
IsExisting(x, hash, f) ==
  \/ hash # NoHash /\ x.hash = hash
  \/ x.name = <<f.stem, f.ext>> /\ x.size = f.size

Existing(arr, hash, f) == \E k \in 1..Len(arr) : IsExisting(arr[k], hash, f)

\* the size check of the per-file loop
OverTotal(arr, f) == getTotalSize(arr) + f.size > MAX_TOTAL_SIZE

\* (a count check that lets every batch through)
OverCountNever(arr, pdfs) == FALSE

\* the count check made once per batch
OverCount(arr, pdfs) == Len(arr) + Len(pdfs) > MAX_FILE_COUNT

\* updateButtons(): has = filesArr.length > 0
HasFiles(arr) == Len(arr) > 0

\* ---------------------------------------------------------------- merge state
\* A merge.  pc: "create" (suspended at PDFDocument.create), "copy"
\* (suspended at PDFDocument.load / copyPages of item), "pause" (suspended at
\* the 60 ms timer), "save" (suspended at outPdf.save), "done".
\* live / arr: the array the for-of iterator walks is the one filesArr refers
\* to (live), or an array filesArr no longer refers to (arr).  idx: the
\* iterator's next index.  bytes: item.rawBytes as passed to load.
\* out: the pages added to outPdf, <<record id, page number>> each.
\* artifact: the documents downloaded (none, or one: its pages).
\* skipped: the 'Partial failure' toasts shown.
\* History: startArr and startBytes (the array the loop started on and the
\* rawBytes of its records then), visited (ids the loop took), alone (no
\* other handler ran since the click), removedBefore (ids removed before the
\* click).
NewMerge(arr, gone) ==
  [pc |-> "create", totalPages |-> TotalPages(arr), added |-> 0, out |-> <<>>,
   live |-> FALSE, arr |-> <<>>, idx |-> 1, item |-> NoItem, bytes |-> Null,
   outcome |-> "none", artifact |-> <<>>, skipped |-> 0,
   startArr |-> <<>>, startBytes |-> <<>>, visited |-> <<>>, alone |-> TRUE,
   removedBefore |-> gone]

\* the for-of statement: an iterator on the array filesArr refers to
StartLoop(m, cur, rb) ==
  [m EXCEPT !.live = TRUE, !.startArr = cur,
            !.startBytes = [k \in 1..Len(cur) |-> rb[cur[k].id]]]

\* history: another handler ran while these merges were in progress
Interleaved(ms) ==
  [k \in 1..Len(ms) |->
     IF ms[k].pc # "done" THEN [ms[k] EXCEPT !.alone = FALSE] ELSE ms[k]]

\* filesArr is about to refer to another array: the iterators on the array
\* arr keep it
Detach(ms, arr) ==
  [k \in 1..Len(ms) |->
     IF ms[k].live THEN [ms[k] EXCEPT !.live = FALSE, !.arr = arr] ELSE ms[k]]

\* ---------------------------------------------------------------- intake
\* A handleFiles invocation.  pc: "read" (suspended at file.arrayBuffer() /
\* hashFile), "load" (suspended at PDFDocument.load), "done".  i: the
\* candidate of pdfs the loop is at.  report: the toast that ended it.
\* shown: the titles of the toasts it showed, in order.
\* resubmit: history, when it was called a merge had ended in success and
\* every candidate was the file of a record of the list.
\* pushed: history, <<id, candidate>> of the records this invocation pushed.
\* dupPush: history, it pushed a record while the list held a record it
\* duplicates.
NewBatch(pdfs) ==
  [pdfs |-> pdfs, i |-> 1, pc |-> "head", hash |-> NoHash,
   addedCount |-> 0, skippedCount |-> 0, errorCount |-> 0,
   cutoff |-> FALSE, report |-> "none", shown |-> <<>>, pushed |-> <<>>,
   dupPush |-> FALSE,
   resubmit |-> /\ \E n \in 1..Len(merges) : merges[n].outcome = "success"
                /\ \A k \in 1..Len(pdfs) :
                     \E j \in 1..Len(filesArr) : filesArr[j].file = pdfs[k]]

\* The head of the per-file loop from candidate b.i on: validation failures
\* continue without giving up the thread; the size check breaks; otherwise
\* the loop suspends at file.arrayBuffer().
\* (a loop head whose size check skips the candidate instead of ending the loop)
RECURSIVE LoopHeadSkips(_, _)
LoopHeadSkips(b, arr) ==
  IF b.i > Len(b.pdfs) THEN [b EXCEPT !.pc = "after"]
  ELSE LET f == File(b.pdfs[b.i]) IN
    IF validateFile(f) # <<>>
      THEN LoopHeadSkips([b EXCEPT !.i = @ + 1, !.errorCount = @ + 1,
                                   !.shown = Append(@, "Invalid file")], arr)
    ELSE IF OverTotal(arr, f)
      THEN LoopHeadSkips([b EXCEPT !.i = @ + 1, !.cutoff = TRUE,
                                   !.shown = Append(@, "Size limit exceeded")], arr)
    ELSE [b EXCEPT !.pc = "read"]

RECURSIVE LoopHead(_, _)
LoopHead(b, arr) ==
  IF b.i > Len(b.pdfs) THEN [b EXCEPT !.pc = "after"]
  ELSE LET f == File(b.pdfs[b.i]) IN
    IF validateFile(f) # <<>>
      THEN LoopHead([b EXCEPT !.i = @ + 1, !.errorCount = @ + 1,
                              !.shown = Append(@, "Invalid file")], arr)
    ELSE IF OverTotal(arr, f)
      THEN [b EXCEPT !.pc = "after", !.cutoff = TRUE,
                     !.shown = Append(@, "Size limit exceeded")]
    ELSE [b EXCEPT !.pc = "read"]

\* The feedback message after the loop
Report(b) ==
  IF b.addedCount > 0 THEN "Files added"
  ELSE IF b.skippedCount > 0 THEN "No new files"
  ELSE "none"

\* Run the loop head; when the loop is over, the rest of handleFiles follows
\* in the same segment.
Continue(b, arr) ==
  LET h == LoopHead(b, arr)
  IN IF h.pc = "after"
       THEN [h EXCEPT !.pc = "done", !.report = Report(h),
                      !.shown = IF Report(h) = "none" THEN @ ELSE Append(@, Report(h))]
       ELSE h

\* renderFileList(); updateButtons() at the end of handleFiles
BatchUI(b, arr) ==
  IF b.pc = "done"
    THEN /\ dom' = Ids(arr)
         /\ mergeDisabled' = ~HasFiles(arr)
         /\ clearDisabled' = ~HasFiles(arr)
    ELSE UNCHANGED <<dom, mergeDisabled, clearDisabled>>

\* handleFiles(files), up to its first await.  An empty files list returns
\* with nothing changed; no PDF among the files, or too many of them, ends
\* the call with an error toast and the list untouched.
HandleFiles(files) ==
  /\ Len(batches) < MaxBatches
  /\ LET pdfs == SelectSeq(files, LAMBDA k : IsPdfCandidate(File(k)))
         b0 == NewBatch(pdfs)
     IN IF Len(pdfs) = 0
          THEN /\ batches' = Append(batches, [b0 EXCEPT !.pc = "done", !.report = "Unsupported files",
                                                          !.shown = <<"Unsupported files">>])
               /\ UNCHANGED <<dom, mergeDisabled, clearDisabled>>
        ELSE IF OverCount(filesArr, pdfs)
          THEN /\ batches' = Append(batches, [b0 EXCEPT !.pc = "done", !.report = "Too many files",
                                                          !.shown = <<"Too many files">>])
               /\ UNCHANGED <<dom, mergeDisabled, clearDisabled>>
        ELSE LET b == Continue(b0, filesArr)
             IN /\ batches' = Append(batches, b)
                /\ BatchUI(b, filesArr)
  /\ merges' = Interleaved(merges)
  /\ UNCHANGED <<filesArr, rawBytes, nextId, mergeLabel, subtle, toasts,
                 progressBar, resetTimers, removed, clicks>>

\* handleFiles resumes with the bytes and the hash: duplicate check, header
\* check, then PDFDocument.load
ReadDone(n) ==
  /\ n \in 1..Len(batches)
  /\ batches[n].pc = "read"
  /\ LET b == batches[n]
         f == File(b.pdfs[b.i])
         hash == hashFile(f.bytes)
         b2 == IF ~f.readable
                 THEN Continue([b EXCEPT !.i = @ + 1, !.errorCount = @ + 1,
                                         !.shown = Append(@, "Cannot process file")], filesArr)
               ELSE IF Existing(filesArr, hash, f)
                 THEN Continue([b EXCEPT !.i = @ + 1, !.skippedCount = @ + 1], filesArr)
               ELSE IF ~HasPdfHeader(f.bytes)
                 THEN Continue([b EXCEPT !.i = @ + 1, !.errorCount = @ + 1,
                                         !.shown = Append(@, "Invalid file")], filesArr)
               ELSE [b EXCEPT !.pc = "load", !.hash = hash]
     IN /\ batches' = [batches EXCEPT ![n] = b2]
        /\ BatchUI(b2, filesArr)
  /\ merges' = Interleaved(merges)
  /\ UNCHANGED <<filesArr, rawBytes, nextId, mergeLabel, subtle, toasts,
                 progressBar, resetTimers, removed, clicks>>

\* the record handleFiles pushes
NewRecord(k, id, hash) ==
  LET f == File(k)
  IN [id |-> id, file |-> k, name |-> <<f.stem, f.ext>>, size |-> f.size,
      pageCount |-> PageCountOf(f.bytes), hash |-> hash]

\* handleFiles resumes after PDFDocument.load: push the record, or count the
\* error, and go on with the next candidate
LoadDone(n) ==
  /\ n \in 1..Len(batches)
  /\ batches[n].pc = "load"
  /\ LET b == batches[n]
         f == File(b.pdfs[b.i])
     IN IF ~LoadOK(f.bytes)
          THEN LET b2 == Continue([b EXCEPT !.i = @ + 1, !.errorCount = @ + 1, !.hash = NoHash,
                                             !.shown = Append(@, "Cannot process file")], filesArr)
               IN /\ batches' = [batches EXCEPT ![n] = b2]
                  /\ BatchUI(b2, filesArr)
                  /\ UNCHANGED <<filesArr, rawBytes, nextId>>
          ELSE LET rec == NewRecord(b.pdfs[b.i], uid, b.hash)
                   arr == Append(filesArr, rec)
                   b2 == Continue([b EXCEPT !.i = @ + 1, !.addedCount = @ + 1, !.hash = NoHash,
                                            !.pushed = Append(@, <<rec.id, b.i>>),
                                            !.dupPush = @ \/ Existing(filesArr, rec.hash, f)], arr)
               IN /\ filesArr' = arr
                  /\ rawBytes' = (rec.id :> f.bytes) @@ rawBytes
                  /\ nextId' = nextId + 1
                  /\ batches' = [batches EXCEPT ![n] = b2]
                  /\ BatchUI(b2, arr)
  /\ merges' = Interleaved(merges)
  /\ UNCHANGED <<mergeLabel, subtle, toasts, progressBar, resetTimers, removed, clicks>>

\* ---------------------------------------------------------------- merge
\* (pages copied last to first)
PagesReversed(id, bytes) ==
  [k \in 1..PageCountOf(bytes) |-> <<id, PageCountOf(bytes) + 1 - k>>]

\* the pages of a source document, as copied into outPdf
Pages(id, bytes) == [k \in 1..PageCountOf(bytes) |-> <<id, k>>]

\* (a cleanup that releases nothing)
cleanupMemoryNothing(arr, rb) == rb

\* cleanupMemory(): rawBytes = null for every item of filesArr
cleanupMemory(arr, rb) ==
  [id \in DOMAIN rb |->
     IF \E k \in 1..Len(arr) : arr[k].id = id THEN Null ELSE rb[id]]

\* (a check that never fires)
NoPagesMergedNegative(added) == added < 0

\* if (added === 0) throw new Error('No pages were successfully merged')
NoPagesMerged(added) == added = 0

\* the catch and finally blocks of the merge handler
Failed(m) ==
  [m EXCEPT !.pc = "done", !.outcome = "failed", !.live = FALSE, !.arr = <<>>,
            !.item = NoItem, !.bytes = Null]

\* (a load that takes whatever it is given)
LoadThrowsNever(bytes) == FALSE

\* PDFDocument.load(item.rawBytes, ...) rejects: no bytes, or bytes that are
\* no PDF document
LoadThrows(bytes) == bytes = Null \/ ~LoadOK(bytes)

\* after the for-of loop: throw, or go on to outPdf.save()
AfterLoop(m) ==
  IF NoPagesMerged(m.added) THEN Failed(m)
  ELSE [m EXCEPT !.pc = "save", !.live = FALSE, !.arr = <<>>,
                 !.item = NoItem, !.bytes = Null]

\* the iterator's next(): the item at idx of the array as it is now, passed
\* to PDFDocument.load with the rawBytes it has now; or the end of the loop
NextItem(m, cur, rb) ==
  LET arr == IF m.live THEN cur ELSE m.arr
  IN IF m.idx <= Len(arr)
       THEN [m EXCEPT !.pc = "copy", !.item = arr[m.idx],
                      !.bytes = rb[arr[m.idx].id], !.idx = @ + 1,
                      !.visited = Append(@, arr[m.idx].id)]
       ELSE AfterLoop(m)

\* added += item.pageCount || srcPages.length
AddedAfter(added, item, srcPages) ==
  added + (IF item.pageCount # 0 THEN item.pageCount ELSE Len(srcPages))

\* Math.round((added/Math.max(1,totalPages))*100)
Percent(added, totalPages) ==
  LET t == IF totalPages > 1 THEN totalPages ELSE 1
  IN (200 * added + t) \div (2 * t)

\* (a finally block that leaves the controls as they are)
MergeUIStuck(m) ==
  /\ resetTimers' = IF m.pc = "done" THEN resetTimers + 1 ELSE resetTimers
  /\ UNCHANGED <<mergeDisabled, clearDisabled, mergeLabel>>

\* the finally block: both controls enabled, the label restored, the 750 ms
\* timer set
MergeUI(m) ==
  IF m.pc = "done"
    THEN /\ mergeDisabled' = FALSE
         /\ clearDisabled' = FALSE
         /\ mergeLabel' = "Merge PDFs"
         /\ resetTimers' = resetTimers + 1
    ELSE UNCHANGED <<mergeDisabled, clearDisabled, mergeLabel, resetTimers>>

\* click on mergeBtn, up to await PDFDocument.create().  An empty list, or
\* a declined confirm(), returns with nothing changed.
MergeStart(proceed) ==
  /\ ~mergeDisabled
  /\ filesArr # <<>>
  /\ TotalPages(filesArr) > LARGE_OUTPUT_THRESHOLD => proceed
  /\ mergeDisabled' = TRUE
  /\ clearDisabled' = TRUE
  /\ mergeLabel' = "Merging..."
  /\ progressBar' = 0
  /\ merges' = Append(Interleaved(merges), NewMerge(filesArr, removed))
  /\ UNCHANGED <<filesArr, rawBytes, nextId, dom, subtle, batches, toasts,
                 resetTimers, removed, clicks>>

\* the click, in a run that starts MaxMerges merges
MergeClick(proceed) == Len(merges) < MaxMerges /\ MergeStart(proceed)

\* the click, in a run that starts MaxMergesAgain merges
MergeClickAgain(proceed) == Len(merges) < MaxMergesAgain /\ MergeStart(proceed)

\* outPdf created: the for-of loop starts on the array filesArr refers to
MergeCreated(n) ==
  /\ n \in 1..Len(merges)
  /\ merges[n].pc = "create"
  /\ LET m == NextItem(StartLoop(merges[n], filesArr, rawBytes), filesArr, rawBytes)
     IN /\ merges' = [Interleaved(merges) EXCEPT ![n] = m]
        /\ MergeUI(m)
  /\ UNCHANGED <<filesArr, rawBytes, nextId, dom, subtle, batches, toasts,
                 progressBar, removed, clicks>>

\* load and copyPages settled: the pages are added and the timer awaited, or
\* (null bytes: load throws) the item is skipped and the loop goes on
MergeCopied(n) ==
  /\ n \in 1..Len(merges)
  /\ merges[n].pc = "copy"
  /\ LET m0 == merges[n]
         srcPages == Pages(m0.item.id, m0.bytes)
         m == IF LoadThrows(m0.bytes)
                THEN NextItem([m0 EXCEPT !.skipped = @ + 1], filesArr, rawBytes)
                ELSE [m0 EXCEPT !.pc = "pause", !.out = @ \o srcPages,
                                !.added = AddedAfter(@, m0.item, srcPages),
                                !.item = NoItem, !.bytes = Null]
     IN /\ merges' = [Interleaved(merges) EXCEPT ![n] = m]
        /\ MergeUI(m)
        /\ progressBar' = IF m.pc = "pause" THEN Percent(m.added, m.totalPages)
                                            ELSE progressBar
  /\ UNCHANGED <<filesArr, rawBytes, nextId, dom, subtle, batches, toasts, removed, clicks>>

\* the 60 ms timer fired: next iteration
MergePaused(n) ==
  /\ n \in 1..Len(merges)
  /\ merges[n].pc = "pause"
  /\ LET m == NextItem(merges[n], filesArr, rawBytes)
     IN /\ merges' = [Interleaved(merges) EXCEPT ![n] = m]
        /\ MergeUI(m)
  /\ UNCHANGED <<filesArr, rawBytes, nextId, dom, subtle, batches, toasts,
                 progressBar, removed, clicks>>

\* outPdf.save() settled: download, cleanupMemory, finally; or (save threw)
\* catch, finally
MergeSaved(n, ok) ==
  /\ n \in 1..Len(merges)
  /\ merges[n].pc = "save"
  /\ LET m == IF ok THEN [merges[n] EXCEPT !.pc = "done", !.outcome = "success",
                                           !.artifact = <<merges[n].out>>]
                    ELSE Failed(merges[n])
     IN /\ merges' = [Interleaved(merges) EXCEPT ![n] = m]
        /\ MergeUI(m)
        /\ rawBytes' = IF ok THEN cleanupMemory(filesArr, rawBytes) ELSE rawBytes
        /\ progressBar' = IF ok THEN 100 ELSE progressBar
  /\ UNCHANGED <<filesArr, nextId, dom, subtle, batches, toasts, removed, clicks>>

\* the 750 ms timer of a finished merge fired: the bar is emptied.  The
\* callback touches the progress bar only.
ProgressReset ==
  /\ resetTimers > 0
  /\ resetTimers' = resetTimers - 1
  /\ progressBar' = 0
  /\ UNCHANGED <<filesArr, rawBytes, nextId, dom, mergeDisabled, clearDisabled,
                 mergeLabel, subtle, batches, merges, toasts, removed, clicks>>

\* ---------------------------------------------------------------- list
\* (the filter's test inverted)
RemoveByIdInverted(arr, id) == SelectSeq(arr, LAMBDA x : x.id = id)

\* filesArr.filter(x => x.id !== f.id)
RemoveById(arr, id) == SelectSeq(arr, LAMBDA x : x.id # id)

\* removed.rawBytes = null, for the record filesArr.find(x => x.id === f.id)
ReleaseById(arr, rb, id) ==
  IF (\E k \in 1..Len(arr) : arr[k].id = id) /\ rb[id] # Null
    THEN [rb EXCEPT ![id] = Null] ELSE rb

\* click on the remove control of the rendered item id
Remove(id) ==
  /\ Cardinality(removed) < MaxRemoves
  /\ \E k \in 1..Len(dom) : dom[k] = id
  /\ rawBytes' = ReleaseById(filesArr, rawBytes, id)
  /\ filesArr' = RemoveById(filesArr, id)
  /\ dom' = Ids(filesArr')
  /\ mergeDisabled' = ~HasFiles(filesArr')
  /\ clearDisabled' = ~HasFiles(filesArr')
  /\ merges' = Interleaved(Detach(merges, filesArr))
  /\ removed' = removed \cup {id}
  /\ UNCHANGED <<nextId, mergeLabel, subtle, batches, toasts, progressBar,
                 resetTimers, clicks>>

\* (a reorder that leaves the array as it is)
MoveNothing(arr, from, to) == arr

\* arr.splice(from,1) then arr.splice(to,0,moved), indices counted from 1
Move(arr, from, to) ==
  LET moved == arr[from]
      rest == SubSeq(arr, 1, from - 1) \o SubSeq(arr, from + 1, Len(arr))
  IN SubSeq(rest, 1, to - 1) \o <<moved>> \o SubSeq(rest, to, Len(rest))

\* Sortable onEnd: the rendered item at oldIndex was dropped at newIndex
Reorder(from, to) ==
  /\ clicks.reorder < MaxReorders
  /\ from \in 1..Len(dom)
  /\ to \in 1..Len(dom)
  /\ clicks' = [clicks EXCEPT !.reorder = @ + 1]
  /\ filesArr' = Move(filesArr, from, to)
  /\ dom' = Ids(filesArr')
  /\ merges' = Interleaved(merges)
  /\ UNCHANGED <<rawBytes, nextId, mergeDisabled, clearDisabled, mergeLabel,
                 subtle, batches, toasts, progressBar, resetTimers, removed>>

\* (a snapshot taken after the list was emptied)
SliceAfterClear(arr) == <<>>

\* filesArr.slice()
Slice(arr) == arr

\* click on clearBtn; an empty list returns with nothing changed.
\* atClear: history, the list as the click found it.
Clear ==
  /\ ~clearDisabled
  /\ clicks.clear < MaxClears
  /\ clicks' = [clicks EXCEPT !.clear = @ + 1]
  /\ filesArr # <<>>
  /\ toasts' = Append(toasts, [previousFiles |-> Slice(filesArr), atClear |-> filesArr])
  /\ rawBytes' = cleanupMemory(filesArr, rawBytes)
  /\ filesArr' = <<>>
  /\ dom' = <<>>
  /\ mergeDisabled' = TRUE
  /\ clearDisabled' = TRUE
  /\ merges' = Interleaved(Detach(merges, filesArr))
  /\ UNCHANGED <<nextId, mergeLabel, subtle, batches, progressBar, resetTimers,
                 removed>>

\* (an Undo that keeps what the list holds by now)
RestoredAfterCurrent(toast) == filesArr \o toast.previousFiles

\* what the Undo action assigns to filesArr
Restored(toast) == toast.previousFiles

\* click on Undo of the t-th toast
Undo(t) ==
  /\ t \in 1..Len(toasts)
  /\ filesArr' = Restored(toasts[t])
  /\ dom' = Ids(filesArr')
  /\ mergeDisabled' = ~HasFiles(filesArr')
  /\ clearDisabled' = ~HasFiles(filesArr')
  /\ toasts' = SubSeq(toasts, 1, t - 1) \o SubSeq(toasts, t + 1, Len(toasts))
  /\ merges' = Interleaved(Detach(merges, filesArr))
  /\ UNCHANGED <<rawBytes, nextId, mergeLabel, subtle, batches, progressBar,
                 resetTimers, removed, clicks>>

\* the oldest toast's timeout removes it
ToastExpire ==
  /\ toasts # <<>>
  /\ toasts' = Tail(toasts)
  /\ UNCHANGED <<filesArr, rawBytes, nextId, dom, mergeDisabled, clearDisabled,
                 mergeLabel, subtle, batches, merges, progressBar, resetTimers,
                 removed, clicks>>

\* the page as loaded, in a browser with or without crypto.subtle
InitAny ==
  /\ filesArr = <<>>
  /\ rawBytes = <<>>
  /\ nextId = 1
  /\ dom = <<>>
  /\ mergeDisabled = TRUE
  /\ clearDisabled = TRUE
  /\ mergeLabel = "Merge PDFs"
  /\ subtle \in BOOLEAN
  /\ batches = <<>>
  /\ merges = <<>>
  /\ toasts = <<>>
  /\ progressBar = 0
  /\ resetTimers = 0
  /\ removed = {}
  /\ clicks = [clear |-> 0, reorder |-> 0]

\* the page as loaded from a secure origin: crypto.subtle is there
Init == InitAny /\ subtle = TRUE

\* what the user does to the list
ListStep ==
  \/ \E id \in 1..(nextId - 1) : Remove(id)
  \/ \E from \in 1..Len(dom), to \in 1..Len(dom) : Reorder(from, to)
  \/ Clear
  \/ \E t \in 1..MaxClears : Undo(t)
  \/ ToastExpire

Next ==
  \/ \E files \in Batches : HandleFiles(files)
  \/ \E n \in 1..MaxBatches : ReadDone(n)
  \/ \E n \in 1..MaxBatches : LoadDone(n)
  \/ \E proceed \in BOOLEAN : MergeClick(proceed)
  \/ \E n \in 1..MaxMerges : MergeCreated(n)
  \/ \E n \in 1..MaxMerges : MergeCopied(n)
  \/ \E n \in 1..MaxMerges : MergePaused(n)
  \/ \E n \in 1..MaxMerges, ok \in BOOLEAN : MergeSaved(n, ok)
  \/ ProgressReset
  \/ ListStep

Spec == Init /\ [][Next]_vars

\* The promises a merge awaits settle and its 60 ms timer fires: a merge that
\* is suspended is resumed in the end.
MergeFairness ==
  \A n \in 1..MaxMerges :
    /\ WF_vars(MergeCreated(n))
    /\ WF_vars(MergeCopied(n))
    /\ WF_vars(MergePaused(n))
    /\ WF_vars(\E ok \in BOOLEAN : MergeSaved(n, ok))

\* the runs of Spec on the batches LiveBatches
NextLive ==
  \/ \E files \in LiveBatches : HandleFiles(files)
  \/ \E n \in 1..MaxBatches : ReadDone(n)
  \/ \E n \in 1..MaxBatches : LoadDone(n)
  \/ \E proceed \in BOOLEAN : MergeClick(proceed)
  \/ \E n \in 1..MaxMerges : MergeCreated(n)
  \/ \E n \in 1..MaxMerges : MergeCopied(n)
  \/ \E n \in 1..MaxMerges : MergePaused(n)
  \/ \E n \in 1..MaxMerges, ok \in BOOLEAN : MergeSaved(n, ok)
  \/ ProgressReset
  \/ ListStep

SpecLive == Init /\ [][NextLive]_vars /\ MergeFairness

\* runs without a merge, on the larger set of batches
NextIntake ==
  \/ \E files \in IntakeBatches : HandleFiles(files)
  \/ \E n \in 1..MaxBatches : ReadDone(n)
  \/ \E n \in 1..MaxBatches : LoadDone(n)
  \/ ListStep

SpecIntake == InitAny /\ [][NextIntake]_vars

\* runs in which the merge control is clicked again
NextAgain ==
  \/ \E files \in AgainBatches : HandleFiles(files)
  \/ \E n \in 1..MaxBatches : ReadDone(n)
  \/ \E n \in 1..MaxBatches : LoadDone(n)
  \/ \E proceed \in BOOLEAN : MergeClickAgain(proceed)
  \/ \E n \in 1..MaxMergesAgain : MergeCreated(n)
  \/ \E n \in 1..MaxMergesAgain : MergeCopied(n)
  \/ \E n \in 1..MaxMergesAgain : MergePaused(n)
  \/ \E n \in 1..MaxMergesAgain, ok \in BOOLEAN : MergeSaved(n, ok)
  \/ ProgressReset

SpecAgain == Init /\ [][NextAgain]_vars

\* ================================================================ claims
IsPrefix(s, t) == Len(s) <= Len(t) /\ \A k \in 1..Len(s) : t[k] = s[k]

\* a candidate that is a readable, well-formed, non-empty PDF within the
\* per-file limit
ValidCandidate(k) ==
  LET f == File(k)
  IN /\ IsPdfCandidate(f)
     /\ validateFile(f) = <<>>
     /\ f.readable
     /\ HasPdfHeader(f.bytes)
     /\ LoadOK(f.bytes)

\* a finished batch of valid candidates that met no count or size limit
ValidBatchDone(b) ==
  /\ b.pc = "done"
  /\ b.report \notin {"Unsupported files", "Too many files"}
  /\ ~b.cutoff
  /\ \A k \in 1..Len(b.pdfs) : ValidCandidate(b.pdfs[k])

\* C1: no two records of filesArr share a non-null hash, and no two share
\* name and size, in any reachable state.
C1_NoDuplicateRecords ==
  \A i, j \in 1..Len(filesArr) :
    i < j =>
      /\ ~(filesArr[i].hash # NoHash /\ filesArr[i].hash = filesArr[j].hash)
      /\ ~(filesArr[i].name = filesArr[j].name /\ filesArr[i].size = filesArr[j].size)

\* C2: the sizes of the records of filesArr never add up to more than
\* MAX_TOTAL_SIZE.
C2_TotalSizeCeiling == getTotalSize(filesArr) <= MAX_TOTAL_SIZE

\* C3: filesArr never holds more than MAX_FILE_COUNT records.
C3_CountCeiling == Len(filesArr) <= MAX_FILE_COUNT

\* C7: a finished batch of valid candidates within the limits has added or
\* skipped every candidate, has pushed its records in batch order, and has
\* pushed no record that duplicated (by hash or by name and size) a record
\* the list held at that moment.
C7_IntakeCardinality ==
  \A n \in 1..Len(batches) :
    LET b == batches[n]
    IN ValidBatchDone(b) =>
         /\ b.addedCount + b.skippedCount = Len(b.pdfs)
         /\ Len(b.pushed) = b.addedCount
         /\ \A k \in 1..(Len(b.pushed) - 1) : b.pushed[k][2] < b.pushed[k + 1][2]
         /\ ~b.dupPush

\* C10, the state part: a batch that met the size cutoff is over, and every
\* record it pushed came from a candidate before the one that was cut off.
C10_CutoffEndsBatch ==
  \A n \in 1..Len(batches) :
    LET b == batches[n]
    IN b.cutoff =>
         /\ b.pc = "done"
         /\ b.i <= Len(b.pdfs)
         /\ \A k \in 1..Len(b.pushed) : b.pushed[k][2] < b.i

\* C10, the step part: the step that cuts a batch off removes nothing from
\* the list, and a batch that was cut off never changes again.
C10_CutoffStep ==
  \A n \in 1..Len(batches') :
    batches'[n].cutoff =>
      IF n <= Len(batches) /\ batches[n].cutoff
        THEN batches'[n] = batches[n]
        ELSE IsPrefix(filesArr, filesArr')

\* C10: once a candidate fails the total-size check, no later candidate of
\* the batch is added, and the candidates accepted before it stay in the list.
C10_HardCutoff == []C10_CutoffEndsBatch /\ [][C10_CutoffStep]_vars

\* C10 witness: a batch was cut off after it had added a record that is
\* still in the list, and a later candidate of it would have fitted.
C10_Witness ==
  \E n \in 1..Len(batches) :
    LET b == batches[n]
    IN /\ b.cutoff
       /\ b.pc = "done"
       /\ b.addedCount > 0
       /\ \E k \in 1..Len(filesArr) : filesArr[k].id = b.pushed[1][1]
       /\ \E j \in (b.i + 1)..Len(b.pdfs) :
            /\ ValidCandidate(b.pdfs[j])
            /\ ~OverTotal(filesArr, File(b.pdfs[j]))

\* the pages a merge of the records arr, holding the bytes given, is to
\* produce: each record's pages in order, record after record, nothing for a
\* record without bytes
RECURSIVE ExpectedPages(_, _)
ExpectedPages(arr, bytes) ==
  IF arr = <<>> THEN <<>>
  ELSE (IF Head(bytes) = Null THEN <<>>
        ELSE [k \in 1..PageCountOf(Head(bytes)) |-> <<Head(arr).id, k>>])
       \o ExpectedPages(Tail(arr), Tail(bytes))

\* C4: a merge no other handler interleaved with runs on the list as it is,
\* and once its loop is over its output holds, in list order, the pages (in
\* their own order) of the records that had bytes, and nothing else; the
\* download is that output.
C4_MergeOutputOrder ==
  \A n \in 1..Len(merges) :
    LET m == merges[n]
    IN m.alone =>
         /\ m.pc \in {"copy", "pause", "save"} => filesArr = m.startArr
         /\ m.pc \in {"save", "done"} => m.out = ExpectedPages(m.startArr, m.startBytes)
         /\ m.artifact # <<>> => m.artifact = <<m.out>>

\* C4 witness: an undisturbed merge of a list put in another order than the
\* records were added in, whose first record failed and whose later record
\* was copied, ended with a download.
C4_Witness ==
  \E n \in 1..Len(merges) :
    LET m == merges[n]
    IN /\ m.alone
       /\ m.pc = "done"
       /\ m.outcome = "success"
       /\ Len(m.startArr) >= 2
       /\ m.startBytes[1] = Null
       /\ m.startArr[1].id > m.startArr[2].id
       /\ m.artifact # <<>>
       /\ m.artifact[1] # <<>>

\* C5: once the loop of a merge is over, the records it took, among those of
\* the list it started on, are exactly that list, in order, each once.
C5_ProcessedInListOrder ==
  \A n \in 1..Len(merges) :
    LET m == merges[n]
        started == {m.startArr[k].id : k \in 1..Len(m.startArr)}
    IN m.pc \in {"save", "done"} =>
         SelectSeq(m.visited, LAMBDA id : id \in started) = Ids(m.startArr)

\* C6: the Undo action makes the list the very sequence of records the clear
\* found, each with the metadata it had, and each without its bytes.
C6_ClearUndoRoundTrip ==
  [][\A t \in 1..Len(toasts) :
       Undo(t) =>
         /\ toasts[t].atClear # <<>>
         /\ filesArr' = toasts[t].atClear
         /\ \A k \in 1..Len(filesArr') : rawBytes'[filesArr'[k].id] = Null]_vars

\* C6 witness: a cleared list of two records is back after Undo.
C6_Witness ==
  /\ clicks.clear > 0
  /\ toasts = <<>>
  /\ merges = <<>>
  /\ Len(filesArr) >= 2
  /\ \A k \in 1..Len(filesArr) : rawBytes[filesArr[k].id] = Null

\* C8: a merge that copied no page ends failed and without a download; a
\* download holds at least one page, and outPdf.save() is only reached with
\* at least one page copied.
C8_NoEmptyOutput ==
  \A n \in 1..Len(merges) :
    LET m == merges[n]
    IN /\ (m.pc = "done" /\ m.out = <<>>) => (m.outcome = "failed" /\ m.artifact = <<>>)
       /\ m.pc = "save" => m.out # <<>>
       /\ m.artifact # <<>> => (m.artifact[1] # <<>> /\ m.outcome = "success")

\* C8 witness: a merge took two records, both failed, and it ended failed.
C8_Witness ==
  \E n \in 1..Len(merges) :
    LET m == merges[n]
    IN /\ m.pc = "done"
       /\ Len(m.visited) >= 2
       /\ m.skipped = Len(m.visited)
       /\ m.out = <<>>
       /\ m.outcome = "failed"

\* C9, the step part: a click on a remove control empties the bytes of that
\* record, takes exactly that record out of the list, and leaves every other
\* record, their order and their bytes as they were.
C9_RemoveStep ==
  \A id \in 1..(nextId - 1) :
    Remove(id) =>
      /\ rawBytes'[id] = Null
      /\ \A other \in DOMAIN rawBytes : other # id => rawBytes'[other] = rawBytes[other]
      /\ \E k \in 1..Len(filesArr) :
           /\ filesArr[k].id = id
           /\ filesArr' = SubSeq(filesArr, 1, k - 1) \o SubSeq(filesArr, k + 1, Len(filesArr))

\* C9, the state part: the output of a merge holds no page of a record that
\* was removed before the merge was started.
C9_NoRemovedPages ==
  \A n \in 1..Len(merges) :
    \A k \in 1..Len(merges[n].out) : merges[n].out[k][1] \notin merges[n].removedBefore

\* C9: removal releases the record's bytes, deletes exactly that record, and
\* keeps its pages out of every later merge.
C9_Removal == []C9_NoRemovedPages /\ [][C9_RemoveStep]_vars

\* C9 witness: a merge started after a record was removed from a list of
\* two ended with a download.
C9_Witness ==
  \E n \in 1..Len(merges) :
    LET m == merges[n]
    IN /\ m.pc = "done"
       /\ m.outcome = "success"
       /\ m.removedBefore # {}
       /\ \E b \in 1..Len(batches) :
            \E k \in 1..Len(batches[b].pushed) : batches[b].pushed[k][1] \in m.removedBefore

\* the PDF candidates among the files handed to handleFiles
Candidates(files) == SelectSeq(files, LAMBDA k : IsPdfCandidate(File(k)))

\* the toasts of a batch-level rejection
Rejections == {"Unsupported files", "Too many files"}

\* C11, the step part: a call of handleFiles on files without a PDF
\* candidate, or with more candidates than the count limit leaves room for,
\* ends at once; the list, the bytes and the rendered items are as before,
\* and the call showed exactly one toast, the error.
C11_RejectStep ==
  \A files \in IntakeBatches :
    (/\ HandleFiles(files)
     /\ \/ Len(Candidates(files)) = 0
        \/ Len(filesArr) + Len(Candidates(files)) > MAX_FILE_COUNT)
    => /\ filesArr' = filesArr
       /\ rawBytes' = rawBytes
       /\ dom' = dom
       /\ LET b == batches'[Len(batches')]
          IN /\ b.pc = "done"
             /\ b.shown \in {<<"Unsupported files">>, <<"Too many files">>}

\* C11, the state part: a rejected batch is over, has added no record and
\* has shown its one error toast, ever after.
C11_RejectedBatch ==
  \A n \in 1..Len(batches) :
    LET b == batches[n]
    IN b.report \in Rejections =>
         /\ b.pc = "done"
         /\ b.pushed = <<>>
         /\ b.addedCount = 0
         /\ b.shown = <<b.report>>

\* C11: a batch rejected as a whole (no PDF candidate, or too many files)
\* adds no record and leaves the list exactly as it was, with one error
\* toast.
C11_BatchRejection == []C11_RejectedBatch /\ [][C11_RejectStep]_vars

\* C11 witness: a batch was rejected for the count limit on a list that
\* held records.
C11_Witness ==
  /\ filesArr # <<>>
  /\ \E n \in 1..Len(batches) : batches[n].report = "Too many files"

\* C12: every batch that passed the batch-level checks ends with a toast
\* that reports its counts.
C12_AggregateReport ==
  \A n \in 1..Len(batches) :
    LET b == batches[n]
    IN (b.pc = "done" /\ b.report \notin Rejections) =>
         /\ b.report \in {"Files added", "No new files"}
         /\ b.shown # <<>>
         /\ b.shown[Len(b.shown)] = b.report

\* the merges in progress
Running == {n \in 1..Len(merges) : merges[n].pc # "done"}

\* a step of the merge handler of merge n: its loop or its position moved
MergeStepOf(n) ==
  merges'[n].pc # merges[n].pc \/ merges'[n].idx # merges[n].idx

\* C13: the step that ends a merge in success leaves the list as it is and
\* every record of the list without bytes; every other step of a merge,
\* the one that ends it in failure included, leaves all bytes as they are.
C13_ReleaseOnSuccess ==
  [][\A n \in 1..Len(merges) :
       MergeStepOf(n) =>
         IF merges'[n].outcome = "success"
           THEN /\ filesArr' = filesArr
                /\ \A k \in 1..Len(filesArr) : rawBytes'[filesArr[k].id] = Null
           ELSE rawBytes' = rawBytes]_vars

\* C13 witness: a merge ended in success on a list of two records that
\* nothing else had released: both are in the list, without bytes.
C13_Witness ==
  /\ \E n \in 1..Len(merges) : merges[n].outcome = "success"
  /\ clicks.clear = 0
  /\ removed = {}
  /\ Len(filesArr) >= 2
  /\ \A k \in 1..Len(filesArr) : rawBytes[filesArr[k].id] = Null

\* C14: at most one merge is in progress at any time.
C14_NoReentrantMerge == Cardinality(Running) <= 1

\* C15: the width of the progress bar is a percentage between 0 and 100.
C15_ProgressBound == progressBar \in 0..100

\* the sequence s without its element at position i
Without(s, i) == SubSeq(s, 1, i - 1) \o SubSeq(s, i + 1, Len(s))

\* C16, the step part: a reorder event leaves the list with the same
\* records, the record that was at oldIndex now at newIndex, the others in
\* the order they had, and every record's bytes as they were.
C16_ReorderStep ==
  \A from \in 1..Len(filesArr), to \in 1..Len(filesArr) :
    Reorder(from, to) =>
      /\ Len(filesArr') = Len(filesArr)
      /\ filesArr'[to] = filesArr[from]
      /\ Without(filesArr', to) = Without(filesArr, from)
      /\ rawBytes' = rawBytes

\* C16: the rendered items always index records of the list (records pushed
\* since the last rendering come after them), and a reorder event is a
\* permutation of the list that puts the moved record at newIndex.
C16_ReorderPermutes == [](Len(dom) <= Len(filesArr)) /\ [][C16_ReorderStep]_vars

\* C16 witness: a reorder has put a younger record before an older one
\* while a batch that had pushed a record was still in flight.
C16_Witness ==
  /\ clicks.reorder > 0
  /\ \E k \in 1..(Len(filesArr) - 1) : filesArr[k].id > filesArr[k + 1].id
  /\ \E n \in 1..Len(batches) : batches[n].pc # "done" /\ batches[n].pushed # <<>>

\* C17, the step part: the step that ends a merge, in success or in
\* failure, leaves both controls enabled and the label restored.
C17_EndStep ==
  \A n \in 1..Len(merges) :
    (merges[n].pc # "done" /\ merges'[n].pc = "done") =>
      /\ merges'[n].outcome \in {"success", "failed"}
      /\ ~mergeDisabled'
      /\ ~clearDisabled'
      /\ mergeLabel' = "Merge PDFs"

\* C17: every merge that starts ends, whatever is interleaved with it; at
\* its end the controls are enabled and the label is restored; the label
\* never stays at 'Merging...' for ever.
C17_MergeFinishes ==
  /\ \A n \in 1..MaxMerges :
       (Len(merges) >= n) ~> (Len(merges) >= n /\ merges[n].pc = "done")
  /\ (mergeLabel = "Merging...") ~> (mergeLabel = "Merge PDFs")
  /\ [][C17_EndStep]_vars

\* C17 witness: a merge ended after a record was removed while it was in
\* progress, and the controls are enabled under the restored label.
C17_Witness ==
  \E n \in 1..Len(merges) :
    LET m == merges[n]
    IN /\ m.pc = "done"
       /\ ~m.alone
       /\ removed \ m.removedBefore # {}
       /\ mergeLabel = "Merge PDFs"
       /\ ~mergeDisabled

\* C18, the step part: the step that ends a merge in success leaves every
\* record in the list, without bytes.
C18_SuccessStep ==
  \A n \in 1..Len(merges) :
    (merges[n].outcome # "success" /\ merges'[n].outcome = "success") =>
      /\ Ids(filesArr') = Ids(filesArr)
      /\ \A k \in 1..Len(filesArr') : rawBytes'[filesArr'[k].id] = Null

\* C18, the state part: a merge started on a list whose records are all
\* without bytes, with nothing interleaved, copies nothing and ends failed
\* without a download; a batch of files that all have their record in the
\* list after a successful merge, the records staying in the list, adds
\* nothing: it is rejected by the count check, or cut off by the size
\* check, or every file is skipped as a duplicate.
C18_SecondRun ==
  /\ \A n \in 1..Len(merges) :
       LET m == merges[n]
       IN (/\ m.alone
           /\ m.pc = "done"
           /\ m.startArr # <<>>
           /\ \A k \in 1..Len(m.startBytes) : m.startBytes[k] = Null)
          => (m.outcome = "failed" /\ m.out = <<>> /\ m.artifact = <<>>)
  /\ \A n \in 1..Len(batches) :
       LET b == batches[n]
       IN (b.resubmit /\ b.pc = "done" /\ removed = {} /\ clicks.clear = 0)
          => /\ b.pushed = <<>>
             /\ b.addedCount = 0
             /\ b.errorCount = 0
             /\ \/ b.report = "Too many files"
                \/ b.cutoff
                \/ b.skippedCount = Len(b.pdfs)

\* C18 (amended): after a successful merge the records are in the list
\* without their bytes; a second merge right after it copies no page and
\* fails; the same files handed to intake again add nothing, being skipped
\* as duplicates unless the count check or the size check stops the batch
\* first.
C18_NotRepeatable == []C18_SecondRun /\ [][C18_SuccessStep]_vars

\* C18 as stated: the same files handed to intake again after a successful
\* merge are all skipped as duplicates.
C18_ResubmitSkipped ==
  \A n \in 1..Len(batches) :
    LET b == batches[n]
    IN (b.resubmit /\ b.pc = "done" /\ removed = {} /\ clicks.clear = 0)
       => b.skippedCount = Len(b.pdfs)

\* C18 witness: the first merge ended in success; the second, with nothing
\* interleaved, took every record of the list and failed; and the batch of
\* the same files handed in again was skipped whole.
C18_Witness ==
  /\ Len(merges) = 2
  /\ merges[1].outcome = "success"
  /\ merges[2].alone
  /\ merges[2].outcome = "failed"
  /\ merges[2].startArr = filesArr
  /\ merges[2].skipped = Len(filesArr)
  /\ filesArr # <<>>
  /\ \E n \in 1..Len(batches) :
       /\ batches[n].resubmit
       /\ batches[n].skippedCount = Len(batches[n].pdfs)
       /\ batches[n].report = "No new files"

\* the ids of the records of arr
IdSet(arr) == {arr[k].id : k \in 1..Len(arr)}

\* C19: the Undo action of a clear makes the list the snapshot taken at the
\* clear, whatever the list holds by then: every record that is in the list
\* and not in the snapshot is out of the list afterwards, and no record's
\* bytes change.
C19_UndoOverwrites ==
  [][\A t \in 1..Len(toasts) :
       Undo(t) =>
         /\ filesArr' = toasts[t].previousFiles
         /\ toasts[t].previousFiles = toasts[t].atClear
         /\ IdSet(filesArr') \cap (IdSet(filesArr) \ IdSet(toasts[t].atClear)) = {}
         /\ rawBytes' = rawBytes]_vars

\* C19 witness: after a clear and its Undo, a record that intake pushed in
\* between is out of the list and still has its bytes.
C19_Witness ==
  /\ clicks.clear > 0
  /\ toasts = <<>>
  /\ filesArr # <<>>
  /\ \A k \in 1..Len(filesArr) : rawBytes[filesArr[k].id] = Null
  /\ \E id \in DOMAIN rawBytes :
       /\ id \notin IdSet(filesArr)
       /\ id \notin removed
       /\ rawBytes[id] # Null

\* no handleFiles invocation is suspended
NoIntakeInProgress == \A n \in 1..Len(batches) : batches[n].pc = "done"

\* C20: when no merge is in progress (and no intake either), the merge
\* control and the clear control are enabled exactly when the list holds a
\* record.
C20_ControlsMatchList ==
  (Running = {} /\ NoIntakeInProgress) =>
    /\ mergeDisabled = (filesArr = <<>>)
    /\ clearDisabled = (filesArr = <<>>)

====
